SPECIFICATION Spec
CONSTANTS
    cycle = cycle
    panel = panel
    cli = cli
    Proc = {cycle, panel}
    Duties <- CycleAndPanel
    Path = {f1, f2}
    Refused = {f2}
    Content = {c1, c2}
    Ref = {r1, r2}
    Absent = Absent
    Damaged = Damaged
    Faults = {"crash", "disk"}
    MaxEdits = 1
    AnyMoment = FALSE
CHECK_DEADLOCK FALSE
INVARIANTS
    ActiveIsRestorable
PROPERTIES
    ImplementsLedger
    NothingIsLost
    RestoreRemovesOnlyItsOwn
