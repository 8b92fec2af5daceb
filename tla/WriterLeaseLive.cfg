\* No acquire answer is lost; two hubs, drops and restarts: liveness.
SPECIFICATION FairSpec
CONSTANTS
    NoHub = NoHub
    Hub = {h1, h2}
    Reference = {r1}
    MaxEpoch = 3
    MaxLost = 0
    MaxDrops = 1
    MaxLate = 0
    MaxRestarts = 1
PROPERTIES
    Reconnects
CHECK_DEADLOCK FALSE
