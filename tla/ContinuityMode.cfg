\* One event, of the inbox or of the outbox, one restart, one operator whose
\* requests may be overtaken by the worker.
SPECIFICATION ModeFairSpec
CONSTANTS
    Record = {e1}
    Operator = {u1}
    Idle = Idle
    MaxRestarts = 1
INVARIANTS
    ModeTellsTruth
PROPERTIES
    LettersHoldAttention
    LiveAgain
\* Deadlock is checked: the worker never stops for good.
