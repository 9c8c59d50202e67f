SPECIFICATION Spec
CONSTANTS
    Kinds = {"R4", "N2"}
    NumSockets = 2
    Size = {3}
    Asked = 2
    MaxQueued = 1
    MaxPending = 1
    MaxLine = 1
    Modulus = 16
    NULL = NULL
INVARIANTS TypeOK LeftAsFound SlotsSound
PROPERTY CallsEnd
CHECK_DEADLOCK FALSE
