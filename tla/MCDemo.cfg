\* Three requests, three in all, on two workers.
SPECIFICATION FairSpec
CONSTANTS
    Tasks = {c1, c2, c3}
    Nobody = Nobody
    Workers = 2
    Requests <- MCRequests
    MaxBody = 1
    LogLevel = 1
    MaxRequests = 3
INVARIANTS TypeOK CreatedIsFound PanicStaysInSearch
PROPERTIES EveryRequestEnds ImplementsItemService
CHECK_DEADLOCK FALSE
