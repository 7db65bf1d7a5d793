SPECIFICATION Spec
CONSTANTS
    c1 = c1
    c2 = c2
    Conns <- MCConns
    NULL = NULL
    MaxLost = 3
INVARIANTS
    PointerIsTheServedConnection
PROPERTIES
    WaitingClientIsAccepted
    
    NothingElseFreed
    OneNetbufPerClient
