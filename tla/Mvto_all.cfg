CONSTANTS
    t1 = t1
    t2 = t2
    t3 = t3
    n1 = n1
    n2 = n2
    r1 = r1
    Absent = Absent
    Lost = Lost
    NoObj = NoObj
    Tx = {t1, t2, t3}
    Obj = {n1, n2, r1}
    Rship = {r1}
    Connected = {n2}
    MaxXid = 3
    Profile <- Applications
SPECIFICATION Spec
SYMMETRY Symmetry
INVARIANTS
    ReadsSerializable
    FinalState
    LocksLive
    RemovedUnneeded
    Vacuumed
    OldestSafe
    DirtyFound
CHECK_DEADLOCK FALSE
