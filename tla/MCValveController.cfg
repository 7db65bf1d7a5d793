SPECIFICATION Spec
CONSTANTS
    Percents <- MCPercents
    Periods <- MCPeriods
    UintMod <- MCUintMod
INVARIANTS
    MutexOwnership
    PulseIsBounded
    AtMostOnePulseAfterStop
PROPERTIES
    ValveKeepsCycling
    PromiseKept
