SPECIFICATION Spec
CONSTANTS
    NumActions = 2
    NumTasks = 2
    Measure = {humidity, ble}
    Ble = {ble}
    Report = {report}
    NULL = NULL
    MaxFailures = 0
INVARIANT ComparableData
