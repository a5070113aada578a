SPECIFICATION FairSpec
CONSTANTS
    q1 = q1
    q2 = q2
    v1 = v1
    v2 = v2
    a1 = a1
    a2 = a2
    a3 = a3
    Request = {q1, q2}
    Virtue = {v1, v2}
    Valor = {a1, a2}
    MaxVirtuesPerValor = 2
    MaxLaunches = 2
    MaxMigrations = 1
    MaxFailures = 1
    None = None
CHECK_DEADLOCK FALSE
INVARIANTS HostMatchesRow CommandFollowsVirtue EnabledIsHeard MoversSurvive
PROPERTY MigrationEnds
