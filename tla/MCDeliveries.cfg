SPECIFICATION FairSpec
CONSTANTS
    cron = cron
    panel = panel
    Row <- MCRow
    Email <- MCEmail
    Worker <- MCWorker
    None = None
    MaxAttempts = 3
    Batch = 1
    MaxFaults = 2
INVARIANTS
    SettledIsEarned
    DuplicateHasACause
PROPERTIES
    SettledUnlessShared
    WebhookSettles
CHECK_DEADLOCK FALSE
