\* A worker that may crash, a consume beside it, a rival event, a manual retry:
\* safety.  The consume is also what a second worker would be.
SPECIFICATION Spec
CONSTANTS
    e1 = e1
    e2 = e2
    e3 = e3
    rival1 = rival1
    unknown = unknown
    order = order
    other = other
    NoEvent = NoEvent
    Event = {e1, e2, rival1}
    Aggregate = {order, other}
    AggregateOf <- MCAggregateOf
    VersionOf <- MCVersionOf
    Unsupported <- MCUnsupported
    Worker = {w1}
    Consumer = {c1}
    MaxAttempts = 2
    BatchLimit = 1
    MaxManualRetries = 1
SYMMETRY Rivals
INVARIANTS
    VersionTracksEffects
    ReceiptIsHonest
    CommittedNeverFails
    DeadLettersVisible
    AttemptsBounded
PROPERTIES
    KeepsPromise
    SettledUntilRetried
\* Nothing obliges a producer to deliver: the hub may rest for ever.
CHECK_DEADLOCK FALSE
