SPECIFICATION Spec
CONSTANTS
    tab1 = tab1
    tab2 = tab2
    shell = shell
    Version <- Releases
    Handler = {tab1, tab2}
    Cli = {shell}
    None = None
    Failed = Failed
    Faults = {"kill", "fetch", "probe", "rename"}
SYMMETRY Clicks
INVARIANTS
    AlwaysInstalled
PROPERTIES
    LastBinaryGoesByDropOnly
    WayBackIsKept
