\* Numbers of one to ten digits; a buffer that holds the longest and a blank.
\* A line buffer of two bytes, as the shell's, and a read buffer of three.
CONSTANTS
    Values <- MCValues
    Packed <- MCPacked
    Floats <- MCFloats
    Length = 13
    Typed <- MCTyped
    Pending <- MCPending
    InitialSize = 2
    MaxLength = 3
SPECIFICATION Spec
INVARIANTS TextIsNumber LowestPlaces PackedRoundTrip PackedText
           NearestHundredth LineFits WordsInPlace LastLineFirst
\* One call is made.
CHECK_DEADLOCK FALSE
