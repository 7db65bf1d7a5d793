SPECIFICATION Spec
CONSTANTS
    Probes <- MCProbes
    PowerOnBits <- MCPowerOnBits
    MaxFaults = 1
    Users <- MCUsers
    Count = 2
    RESOLUTION = 12
    Period = 50
    ReadTicks <- MCReadTicks
    Lapses <- MCLapses
    CounterSize = 1000
INVARIANTS
    OneMutexExcludes
    ResolutionTracked
    ReadingsAreFresh
    RoundIsPaced
PROPERTIES
    RaceHeals
    KeepsPublishing
CHECK_DEADLOCK FALSE
