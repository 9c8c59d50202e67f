SPECIFICATION Spec
CONSTANTS
    AtTries = 10
    Passes = 4
    SimTries = 10
    ReadTries = 3
    MaxReportFailures = 1
    NULL = NULL
INVARIANTS TypeOK ModemAsBelieved OffWhenDone TimeoutPutBack
PROPERTY ReportEnds
