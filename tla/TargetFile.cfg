SPECIFICATION Spec
CONSTANTS
    MaxInput = 5
INVARIANT TypeOK
INVARIANT LinesExact
INVARIANT EndSound
PROPERTY AllLinesReturned
