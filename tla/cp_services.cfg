SPECIFICATION FairSpec
CONSTANTS
    Nil = Nil
    s1 = s1
    s2 = s2
    Capsules = {a}
    Emitters = {e1}
    Keys = {k1}
    EnvValues = {"", Nil}
    LegacyName = legacy
    Services <- MCTwoServices
    DefaultService = s1
    TargetLists <- MCTwoServicesLists
    NodeCount <- MCNodeCount
    EqualSizeAllowed = FALSE
    Commands = {}
    MaxLagEntries = 1
    FaultKinds = {"kill", "crash"}
    MaxLog = 2
    MaxEmits = 2
    MaxFaults = 1
PROPERTIES
    StrictMeansWitnessed
    AnchorNeverBlocks
