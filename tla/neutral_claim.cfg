SPECIFICATION Spec
CONSTANTS
    core = core
    moved = moved
    odd = odd
    Paths = {core, moved, odd}
    Blocked = {moved, odd}
    Quoted = {odd}
    Scanned = {core}
    Absent = Absent
    Unset = Unset
    Pulls = {1, 2}
    MaxPushes = 1
    Lines <- MCLines
    Secrets <- MCSecrets
CHECK_DEADLOCK FALSE
INVARIANT OnlyApproved
