\* A worker that may crash, a consume beside it, an unsupported event: liveness.
SPECIFICATION FairSpec
CONSTANTS
    e1 = e1
    e2 = e2
    e3 = e3
    rival1 = rival1
    unknown = unknown
    order = order
    other = other
    NoEvent = NoEvent
    Event = {e1, e2, unknown}
    Aggregate = {order, other}
    AggregateOf <- MCAggregateOf
    VersionOf <- MCVersionOf
    Unsupported <- MCUnsupported
    Worker = {w1}
    Consumer = {c1}
    MaxAttempts = 2
    BatchLimit = 1
    MaxManualRetries = 1
PROPERTIES
    RowsSettle
CHECK_DEADLOCK FALSE
