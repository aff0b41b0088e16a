SPECIFICATION LiveSpec

CONSTANTS
    Names = {alice}
    Dests = {d1}
    NoDest = NoDest
    MaxEvents = 3
    Relays = {r1, r2}
    Requests = {q1, q2}
    MaxTime = 2

INVARIANTS
    Consistency
    AcknowledgedIsRestorable

PROPERTIES
    RelaysConverge
