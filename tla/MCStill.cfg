SPECIFICATION MCSpec
CONSTANTS
    UintMod <- MCUintMod
    Percents <- MCPercents
    Periods <- MCPeriods
    Modes <- AllModes
    SettingValues <- AllSettings
    CubeTemps <- AllCubeTemps
    ColumnTemps <- MCColumnTemps
INVARIANTS
    TemperatureMutexOwnership
    AtMostTwoPulsesAfterFinish
PROPERTIES
    HeadsAreFed
    FinishIsNoticed
