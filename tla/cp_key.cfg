SPECIFICATION Spec
CONSTANTS
    Nil = Nil
    s1 = s1
    s2 = s2
    Capsules = {a, b}
    Emitters = {e1}
    Keys = {k1}
    EnvValues = {Nil}
    LegacyName = legacy
    Services <- MCOneService
    DefaultService = s1
    TargetLists <- MCOneServiceLists
    NodeCount <- MCNodeCount
    EqualSizeAllowed = FALSE
    Commands = {}
    MaxLagEntries = 1
    FaultKinds = {}
    MaxLog = 3
    MaxEmits = 2
    MaxFaults = 0
INVARIANT
    SignedByOperator
