SPECIFICATION StillSpec
CONSTANTS
    UintMod <- MCUintMod
    Percents <- MCPercents
    Periods <- MCPeriods
    Modes <- CubeModes
    SettingValues <- CubeSettings
    CubeTemps <- MCCubeTemps
    ColumnTemps <- MCNoTemps
INVARIANTS
    DutyIsReduced
