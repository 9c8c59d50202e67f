SPECIFICATION FairSpec
CONSTANTS
    Size = 4
    Type <- MCSmall
    Words <- MCWords
    Flags = {0, 6}
    NULL = NULL
    Junk = Junk
    AckEvery = 2
    IndexLimit = 5
    MaxExtra = 1
    MaxOthers = 1
INVARIANTS TypeOK ReportSound
PROPERTIES KeptUntilAcked SendingEnds
