SPECIFICATION FairSpec
CONSTANTS
    q1 = q1
    q2 = q2
    v1 = v1
    v2 = v2
    a1 = a1
    a2 = a2
    Request = {q1, q2}
    Virtue = {v1}
    Valor = {a1}
    FirstValors = {a1}
    LastGuestnet = 1
    MaxVirtuesPerValor = 1
    MaxAttempts = 2
    None = None
    MaxRows = 2
    MaxFeedLosses = 1
    MaxAborts = 1
CHECK_DEADLOCK FALSE
INVARIANTS TypeOK StoresAgree
PROPERTIES RequestsAnswered StoppedDomUDestroyed
