SPECIFICATION FairSpec
CONSTANTS
    v1 = v1
    a1 = a1
    a2 = a2
    r1 = r1
    app1 = app1
    Virtue = {v1}
    Valor = {a1, a2}
    Request = {1, 2}
    Role = {r1}
    RoleOf <- OneRole
    Ids <- SmallIds
    Item = {app1}
    Lists <- OneItem
    Visited = {"virtues", "valors"}
    EndsInU = {}
    Quoted = {}
    Clipped = Clipped
    Unreadable = Unreadable
    Placeholder = Placeholder
    NoData = NoData
    Misread = Misread
    Everything = Everything
    None = None
    MaxChanges = 1
    MaxFaults = 1
    MaxVisits = 1
    MaxEvents = 1
    MaxSelections = 1
INVARIANT FailureHasCause
PROPERTIES GraphSettles ViewsSettle
