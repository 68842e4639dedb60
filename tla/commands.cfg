SPECIFICATION FairSpec
CONSTANTS
    Nil = Nil
    Empty = Empty
    r1 = r1
    r2 = r2
    r3 = r3
    p1 = p1
    p2 = p2
    p3 = p3
    k1 = k1
    k2 = k2
    k3 = k3
    s1 = s1
    s2 = s2
    d1 = d1
    d2 = d2
    Procs = {p1, p2, p3}
    Digests = {d1, d2}
    Times = {1, 2}
    Workloads <- MCWorkloads
CHECK_DEADLOCK FALSE
INVARIANTS
    TypeOK
    RotationRecorded
    RotationVerifies
    RotationSeen
    ResolvedIsCommitted
    StoredStays
    SequenceNoteTrue
    BlameTrue
    RemoteNeverInvents
PROPERTIES
    ReadFailsOnTornFile
    CommandsEnd
