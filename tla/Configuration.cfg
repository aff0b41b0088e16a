SPECIFICATION LiveSpec

CONSTANTS
    Reservable = {alice}
    Policies = {}
    Admins = {a1, a2}
    Worker = Worker
    Nobody = Nobody
    MaxConfigurations = 3
    MaxDisturbances = 1

INVARIANTS
    Consistency

PROPERTIES
    ConfigurationMovesForward
    RequestsSettle
