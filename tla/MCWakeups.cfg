SPECIFICATION Spec
CONSTANTS
    TypeOrder <- MCTypeOrder
    Desirability <- MCDesirability
    Damper <- MCDamper
    NULL = NULL
    Position = "position"
    Report = "report"
    GetTimeAndReport = "time"
    Histories <- MCHistories
    NullKeys <- MCNullKeys
    Energies = {2, 9}
    Rooms <- MCRooms
    LogsReported = FALSE
    Interval = 2
    NoBackOff = 2
    MaxPeriod = 7
    MaxAge = 2
    TimeInterval = 2
INVARIANTS TypeOK RankingSound BackOffSound
PROPERTY ChoiceSound
