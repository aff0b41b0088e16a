SPECIFICATION Spec
CONSTANTS
    Relays = {"r1", "r2", "bad"}
    Malformed = {"bad"}
    Defaults = {"r2"}
    Choices <- MCChoices
    Opened <- MCOpened
    Anns = {1, 2, 3, 4}
    Coords = {"c1", "c2"}
    Authors = {"p"}
    Author <- MCAuthor
    Coord <- MCCoord
    CreatedAt <- MCCreatedAt
    Valid = {1, 2, 3}
    Announces <- MCAnnounces
    SelfCounted = {3}
    Domains = {"d1", "d2"}
    Outcomes = {"verified", "unreachable"}
    Stored <- MCStored
    Disguised = {2}
    Backups <- MCBackups
    Owner <- MCOwner
    Limit = 2
    MaxRuns = 2
    MaxLeft = 1
INVARIANTS Consistency NewestIsKept PageIsHonest
PROPERTIES NothingIsTakenBack DiscoverySettles
CHECK_DEADLOCK FALSE
