SPECIFICATION Spec

CONSTANTS
    alice = alice
    bob = bob
    d1 = d1
    d2 = d2
    Names = {alice}
    Dests = {d1, d2}
    NoDest = NoDest
    MaxEvents = 3
    Handlers = {h1, h2}
    Worker = Worker
    Restored <- OneRestored
    BatchLimit = 2
    MaxDisturbances = 1

SYMMETRY Symmetry

INVARIANTS
    Consistency
    ServedIsBackedUp

PROPERTIES
    AddressesAdvance
    ImplementsRegistry
