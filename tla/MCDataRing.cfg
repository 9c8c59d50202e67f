SPECIFICATION Spec
CONSTANTS
    Size <- MCSize
    Type <- MCType
    Words <- MCWords
    NULL = NULL
INVARIANTS TypeOK BlocksIntact BlocksDisjoint ChainSound
PROPERTY InUseUntouched
CHECK_DEADLOCK FALSE
