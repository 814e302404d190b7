CONSTANTS
    Types <- MCTypes
    IntValues <- MCIntValues
    StrValues <- MCStrValues
    PadBytes <- MCPadBytes
    MaxEdits <- MCMaxEdits

SPECIFICATION Spec

\* One exchange ends once the reply is decoded.
CHECK_DEADLOCK FALSE

INVARIANT RoundTrip
INVARIANT AcceptsOnlyEncodings
