SPECIFICATION FairSpec
CONSTANTS
    p1 = p1
    p2 = p2
    t1 = t1
    t2 = t2
    t3 = t3
    Process = {p1}
    Thread = {t1, t2}
    ProcessOf <- OneServer
    Virtue = {v1, v2}
    Valor = {a1}
    Row = {r0, r1, r2, r3}
    RouterRow = r0
    RouterGuestnet = 2
    LastGuestnet = 3
    Unborn = Unborn
    Gone = Gone
    None = None
INVARIANTS
    TypeOK
    GuestnetUnique
PROPERTIES
    LockReleased
    PoolSpec
CHECK_DEADLOCK FALSE
