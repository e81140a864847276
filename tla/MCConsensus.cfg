SPECIFICATION ConsensusSpec
CONSTANTS
    wpchecksums = wpchecksums
    maldet = maldet
    amwscan = amwscan
    tampered = tampered
    shell = shell
    index = index
    bin = bin
    listed = listed
    Missing = Missing
    Engine <- MCEngine
    Expected <- MCEngine
    Sha = {tampered, shell}
    Path = {index, bin, listed}
    Confidence = {"signature", "heuristic", "anomaly", "unheard_of"}
    Possible <- MCPossible
    Weight <- MCWeight
    Multiplier <- MCMultiplier
    Saturation = 20000
    ConfirmedAt = 90
    LikelyAt = 60
    SuspiciousAt = 30
    Location <- MCLocation
    Whitelisted = {listed}
INVARIANTS
    ConsensusTypeOK
    NoEngineDecidesAlone
    NoCopyIsLost
    ActsOnlyWhereAllowed
PROPERTIES
    AbstentionIsSilence
    MoreEyesNeverLower
CHECK_DEADLOCK FALSE
