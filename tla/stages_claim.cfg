SPECIFICATION Spec
CONSTANTS
    Nil = Nil
    Ids = {a, b, c, d}
    FreshIds <- MCFreshIds
    MaxChanges = 0
CHECK_DEADLOCK FALSE
INVARIANT
    SomePassIsTrue
