SPECIFICATION Spec
CONSTANTS
    Size = 6
    Type <- MCBoth
    Words <- MCWords
    Flags = {0}
    NULL = NULL
    Junk = Junk
    AckEvery = 2
    IndexLimit = 7
    MaxExtra = 1
    MaxOthers = 1
INVARIANT PlacesListed
