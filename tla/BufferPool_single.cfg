CONSTANTS
    MaxPages = 2
    Zero = zero
    Values = {a}
    File = {vec, idx}
    IndexFile = {idx}
    PoolSize = 2
    u1 = u1
    u2 = u2
    t1 = t1
    t2 = t2
    User = {u1, u2}
    Thread = {t1}
    ThreadOf <- OneThread
    Iterator = {u2}
    Unmarked = {}
    NoPage = NoPage
SPECIFICATION Spec
INVARIANTS
    PoolInv
    PinnedStays
    CleanCoherent
PROPERTIES ImplementsPageStore
