SPECIFICATION Spec
CONSTANTS
    Subs = {"announcements", "counts"}
    Events = {"ann", "padded"}
    Accepts <- MCAccepts
    Frames <- MCFrames
    MaxAttempts = 2
    MaxQueue = 2
INVARIANTS Consistency WaitingEnds
PROPERTY ImplementsRelayQuery
CHECK_DEADLOCK FALSE
