SPECIFICATION Spec
CONSTANTS
    Byte = {192, 219, 220}
    Header <- MCHeader
    Lengths = {0, 1, 2, 3, 5, 6, 7}
    BufLen = 8
INVARIANTS
    OverrunOnlyIfTooLong
    FrameIsEscaped
    RoundTrip
