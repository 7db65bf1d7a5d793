SPECIFICATION Spec
CONSTANTS
    Width = 2
    Hold = 16
    Bytes = 3
    CrcByte <- MCCrcByte
    Populations <- MCPopulations
    Known <- MCKnown
    Quantity = 4
    MaxFaults = 2
INVARIANTS
    StaleTraceNeverDecoded
    AnswersAreTrue
PROPERTIES
    EnumerationKept
    SearchEnds
CHECK_DEADLOCK FALSE
