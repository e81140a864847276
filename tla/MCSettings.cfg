SPECIFICATION Spec
CONSTANTS
    Cron = {c1}
    Panel = panel
    Daemon = daemon
    Page = page
    Path = {f1}
    Grace = 1
    Days = 2
    MaxEdits = 2
    None = none
    Broken = broken
PROPERTIES
    OnlyStaleWritersDropPaths
    NeverActsInGrace
    ScanHonoursItsCopy
    FirstRunIsRecorded
CHECK_DEADLOCK FALSE
