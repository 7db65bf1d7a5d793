SPECIFICATION Spec
CONSTANTS
    Requests <- MCRequests
    Statuses <- MCStatuses
    Capacity <- MCCapacity
INVARIANTS
    EveryObjectHasOneOwner
    AnswersInOrder
PROPERTIES
    QueuedIsServed
CONSTRAINT NamedInOrder
CHECK_DEADLOCK FALSE
