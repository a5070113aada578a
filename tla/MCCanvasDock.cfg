SPECIFICATION DockSpec
CONSTANTS
    editor = editor
    viewer = viewer
    firefox = firefox
    word = word
    RoleList <- MCRoleList
    AppsOf <- MCAppsOf
    Docks = 6
    Address = {a1, a2}
    Null = Null
    None = None
    Failed = Failed
    MaxOpenings = 2
    MaxCallbacks = 2
    MaxStops = 1
INVARIANTS
    DockFilledOnce
    WindowShowsItsApp
CHECK_DEADLOCK FALSE
