\* One hub, one lost acquire answer: the hub never reconnects.
SPECIFICATION FairSpec
CONSTANTS
    NoHub = NoHub
    Hub = {h1}
    Reference = {r1}
    MaxEpoch = 2
    MaxLost = 1
    MaxDrops = 0
    MaxLate = 0
    MaxRestarts = 0
PROPERTIES
    Reconnects
CHECK_DEADLOCK FALSE
