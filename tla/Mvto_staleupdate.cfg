CONSTANTS
    t1 = t1
    t2 = t2
    t3 = t3
    n1 = n1
    n2 = n2
    r1 = r1
    Absent = Absent
    Lost = Lost
    NoObj = NoObj
    Tx = {t1, t2}
    Obj = {n1, n2, r1}
    Rship = {r1}
    Connected = {n2}
    MaxXid = 2
    Profile <- Scanning
SPECIFICATION Spec
SYMMETRY Symmetry
INVARIANTS
    FinalState
CHECK_DEADLOCK FALSE
