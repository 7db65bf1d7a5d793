SPECIFICATION AlarmSpec
CONSTANTS
    Minutes <- MCMinutes
    TickMod <- MCTickMod
    StartTicks <- MCStartTicks
    TickMs <- MCTickMs
    MaxLag <- MCMaxLag
    Requests <- MCRequests
    Capacity = 10
    MaxChanges = 2
INVARIANTS
    EndsOnItsTick
    StartUpIsOrdered

    
CHECK_DEADLOCK FALSE
