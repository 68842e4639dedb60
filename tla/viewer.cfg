SPECIFICATION Spec
CONSTANTS
    Nil = Nil
    Malformed = malformed
    JsonNull = null
    a = a
    b = b
    Ids = {a, b}
    Incoming <- MCIncoming
    MaxLoads = 3
CHECK_DEADLOCK FALSE
INVARIANTS
    TypeOK
    OneBundleShown
    VerdictsAgree
PROPERTIES
    LinksAgree
