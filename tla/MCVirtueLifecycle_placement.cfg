SPECIFICATION Spec
CONSTANTS
    q1 = q1
    q2 = q2
    v1 = v1
    v2 = v2
    a1 = a1
    a2 = a2
    Request = {q1, q2}
    Virtue = {v1, v2}
    Valor = {a1, a2}
    FirstValors = {}
    LastGuestnet = 2
    MaxVirtuesPerValor = 1
    MaxAttempts = 1
    None = None
    MaxRows = 2
    MaxFeedLosses = 0
    MaxAborts = 0
SYMMETRY Symmetry
CHECK_DEADLOCK FALSE
INVARIANTS DomUAccounted AddressesDistinct OvershootBounded
VIEW WithoutCalm
