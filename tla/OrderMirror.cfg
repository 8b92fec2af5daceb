\* Two workers, every kind of fault, an operator who attends to dead letters.
SPECIFICATION AttendedSpec
CONSTANTS
    Worker = {w1, w2}
    MaxAttempts = 2
    MaxRows = 3
    MaxLost = 1
    MaxLate = 1
    MaxCrashes = 1
INVARIANTS
    NothingLost
PROPERTIES
    FollowsFeed
    SentStaysSent
    CatchesUp
CHECK_DEADLOCK FALSE
