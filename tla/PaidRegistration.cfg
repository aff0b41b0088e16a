SPECIFICATION LiveSpec

CONSTANTS
    Names = {alice}
    Dests = {d1}
    NoDest = NoDest
    MaxEvents = 3
    Calls = {c1, c2}
    Nobody = Nobody
    Recipients = {r1, r2}
    NoPolicy = NoPolicy
    MaxAttempts = 2

INVARIANTS
    Consistency
    PaymentsClaimNames

PROPERTIES
    PaidClaimIsProtected
    PaidClaimCompletes
