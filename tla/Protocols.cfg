SPECIFICATION ProtoSpec
CONSTANTS
    Bytes <- ByteValues
    Sizes <- ByteValues
    Word = 64
    MaxStream = 64
    MaxConns = 1
    Scripts <- AllScripts
INVARIANT Framed
INVARIANT GivenAsSent
INVARIANT KeptAsSent
PROPERTY Returns
