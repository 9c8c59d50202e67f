SPECIFICATION Spec
CONSTANTS
    Boards <- MCBoards
    HallRange = "200"
    AccelScale = 1
    QueueSize = 2
    MaxPolls = 2
    MaxRestarts = 1
    DefaultSource = 3
    Levels <- MCLevels
    HistoryLength = 3
    RandomEvery = 3
    Day = 4
    MaxTime = 10
    MaxStay = 3
    MaxSet = 2
    Peer <- MCPeer
    MaxDevices = 2
    MaxDiscovery = 2
    MaxReadings = 2
    MeasureType <- MCMeasure
    ReportType = "report"
    Driver <- MCDriver
    NULL = NULL
PROPERTY BestOfHistory
