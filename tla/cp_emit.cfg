SPECIFICATION Spec
CONSTANTS
    Nil = Nil
    s1 = s1
    s2 = s2
    Capsules = {a, b}
    Emitters = {e1, e2}
    Keys = {k1}
    EnvValues = {""}
    LegacyName = legacy
    Services <- MCOneService
    DefaultService = s1
    TargetLists <- MCOneServiceLists
    NodeCount <- MCNodeCount
    EqualSizeAllowed = TRUE
    Commands = {}
    MaxLagEntries = 1
    FaultKinds = {"kill", "crash", "restore"}
    MaxLog = 3
    MaxEmits = 2
    MaxFaults = 1
SYMMETRY Symmetry
INVARIANTS
    TypeOK
    WitnessesGenuine
    FailureMeansFork
PROPERTIES
    Refines
