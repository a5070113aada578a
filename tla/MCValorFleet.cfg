SPECIFICATION FairSpec
CONSTANTS
    t1 = t1
    t2 = t2
    t3 = t3
    v1 = v1
    v2 = v2
    a1 = a1
    a2 = a2
    a3 = a3
    Thread = {t1, t2}
    Virtue = {v1}
    Valor = {a1, a2}
    MaxVirtuesPerValor = 1
    NumStandbyValors = 1
    MaxFailures = 1
    MaxSpawned = 1
    None = None
CHECK_DEADLOCK FALSE
INVARIANTS RowMatchesInstance CreatingIsAttended DestroyedIsRemoved VerifyNeverWaits
PROPERTIES OperationsEnd
