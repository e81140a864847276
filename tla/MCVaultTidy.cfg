SPECIFICATION Spec
CONSTANTS
    cycle = cycle
    panel = panel
    cli = cli
    Proc = {cycle, panel}
    Duties <- CycleAndPanel
    Path = {f1}
    Refused = {}
    Content = {c1, c2}
    Ref = {r1, r2}
    Absent = Absent
    Damaged = Damaged
    Faults = {"db", "rot"}
    MaxEdits = 1
    AnyMoment = TRUE
CHECK_DEADLOCK FALSE
INVARIANTS
    NoTruncatedOriginal
    NoUnexplainedCopy
