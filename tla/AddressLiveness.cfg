SPECIFICATION LiveSpec

CONSTANTS
    alice = alice
    bob = bob
    d1 = d1
    d2 = d2
    Names = {alice, bob}
    Dests = {d1}
    NoDest = NoDest
    MaxEvents = 2
    Handlers = {h1}
    Worker = Worker
    Restored <- NoneRestored
    BatchLimit = 1
    MaxDisturbances = 1

PROPERTIES
    StagedMutationsSettle
