SPECIFICATION HookSpec
CONSTANTS
    Size <- MCSize
    Type <- MCType
    Words <- MCWords
    Key <- MCKey
    Action = {c1}
    NULL = NULL
    Junk = Junk
INVARIANTS TypeOK StoreSound 
PROPERTIES QueueSpec
