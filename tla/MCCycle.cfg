SPECIFICATION Spec
CONSTANTS
    index = index
    upload = upload
    home = home
    addon = addon
    pmf = pmf
    maldet = maldet
    wpchecksums = wpchecksums
    File = {index, upload}
    Root = {home, addon}
    RootOf <- OneRoot
    MaxFiles = {0, 1}
    Engine = {pmf, maldet}
    Lenient = {pmf}
    Covers <- Everything
    Malicious <- SecondEdit
    Quorum = 1
    Mode = {"incremental", "full"}
    Faults = {"root", "abstain", "timeout", "db", "disk", "kill"}
    Quiet = {}
    Revert = FALSE
    MaxEdits = 3
    MaxFaults = 2
INVARIANTS
    KnownIsAnswered
PROPERTIES
    CompletedCovers
