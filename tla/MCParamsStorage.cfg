SPECIFICATION WifiSpec
CONSTANTS
    none = none
    Params <- MCParams
    Values <- MCValues
    NotSet = none
    ApPasswordLength = 8
INVARIANTS
    BandIsNotNegative
    AckedIsDurable
    WifiFollowsStorage
