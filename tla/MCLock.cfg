SPECIFICATION FairSpec
CONSTANTS
    panel1 = panel1
    panel2 = panel2
    cron = cron
    panelPid = panelPid
    cronPid = cronPid
    Contender <- MCContender
    Pid <- MCPid
    PidOf <- MCPidOf
    Nobody = Nobody
    MaxFaults = 2
INVARIANTS
    ExclusiveUntilMisremoval
PROPERTIES
    OnlyStaleRemovalMisremoves
    WrittenOrphanRecovered
