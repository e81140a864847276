SPECIFICATION FairSpec
CONSTANTS
    index = index
    upload = upload
    home = home
    addon = addon
    pmf = pmf
    maldet = maldet
    wpchecksums = wpchecksums
    File = {index, upload}
    Root = {home, addon}
    RootOf <- TwoRoots
    MaxFiles = {0}
    Engine = {pmf, wpchecksums}
    Lenient = {pmf}
    Covers <- CoreOnly
    Malicious <- FirstEdit
    Quorum = 1
    Mode = {"incremental", "full"}
    Faults = {"abstain", "unreadable", "exit", "root", "disk", "kill"}
    Quiet = {"read", "parse"}
    Revert = TRUE
    MaxEdits = 2
    MaxFaults = 1
PROPERTIES
    TakesOnlyWhatWasAnswered
    
