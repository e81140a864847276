SPECIFICATION Spec
CONSTANTS
    cycle = cycle
    panel = panel
    cli = cli
    Proc = {panel, cli}
    Duties <- PanelAndCli
    Path = {f1}
    Refused = {}
    Content = {c1}
    Ref = {r1}
    Absent = Absent
    Damaged = Damaged
    Faults = {}
    MaxEdits = 0
    AnyMoment = TRUE
CHECK_DEADLOCK FALSE
PROPERTIES
    NothingIsLost
