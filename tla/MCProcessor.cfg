SPECIFICATION FairSpec
CONSTANTS
    NumActions = 2
    NumTasks = 2
    Measure = {humidity, ble}
    Ble = {ble}
    Report = {report}
    NULL = NULL
    MaxFailures = 1
INVARIANTS TypeOK ThreadsSound
PROPERTY SleepsAgain
