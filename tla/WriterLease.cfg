\* Two hubs, every kind of fault: safety.
SPECIFICATION Spec
CONSTANTS
    NoHub = NoHub
    Hub = {h1, h2}
    Reference = {r1}
    MaxEpoch = 3
    MaxLost = 1
    MaxDrops = 1
    MaxLate = 1
    MaxRestarts = 1
SYMMETRY Symmetry
INVARIANTS
    FencedOut
    EpochsExclusive
    RecordedOnce
PROPERTIES
    TakeoverNeedsExpiry
CHECK_DEADLOCK FALSE
