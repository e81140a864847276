SPECIFICATION Spec
CONSTANTS
    Cycle = {1, 2}
    Keeper = {cron}
    Start = 2
    Budget = 3
    None = None
INVARIANTS
    KilledRowIsDead
    HeldIsOnRecord
    FoundIsTold
PROPERTIES
    InterruptedIsClosed
    DecisionStands
CHECK_DEADLOCK FALSE
