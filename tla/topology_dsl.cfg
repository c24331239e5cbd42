SPECIFICATION Spec
CONSTANTS
    U32 = 16
    Words <- MCWords
    MaxWords = 6
INVARIANTS
    ParseReadsAll
    ParseExact
    ParsedIsSpec
CHECK_DEADLOCK FALSE
