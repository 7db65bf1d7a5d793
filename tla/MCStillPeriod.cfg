SPECIFICATION StillSpec
CONSTANTS
    UintMod <- MCUintMod
    Percents <- MCPercents
    Periods <- MCPeriods
    Modes <- PeriodModes
    SettingValues <- PeriodSettings
    CubeTemps <- MCNoTemps
    ColumnTemps <- MCNoTemps
INVARIANTS
    CycleIsASetPeriod
