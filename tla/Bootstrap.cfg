SPECIFICATION LiveSpec

CONSTANTS
    Requests = {q1, q2}
    MaxConfs = 3

INVARIANTS
    Consistency
    SetupDoesNotStopService

PROPERTIES
    NothingIsReplaced
    SetupLeadsToService
