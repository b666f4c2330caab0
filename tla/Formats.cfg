SPECIFICATION FSpec
CONSTANTS
    Sources <- MCSources
    Delimiters <- MCDelimiters
    Numbers <- MCNumbers
    FixedLength = 2
    GivenArrays <- MCGivenArrays
    NestedArrays <- MCNestedArrays
    ReadAs <- MCReadAs
    Rows <- MCRows
    Byteas <- MCByteas
    Names <- MCNames
    Settings <- MCSettings
    Entries <- MCEntries
    Timestamps <- MCTimestamps
CHECK_DEADLOCK FALSE
INVARIANTS
    NoFault
    ArrayRoundTrip
    TextRoundTrip
    ConfigRoundTrip
    TimeRoundTrip
