SPECIFICATION FairSpec
CONSTANTS
    firefox = firefox
    word = word
    editor = editor
    Id <- MCId
    Role = {editor}
    DrawerRoles = {editor}
    MaxWindows = 2
    MaxTimers = 2
    MaxCount = 2
    Place <- MCPlace
    Static = {0}
    Page <- MCPage
    Pack <- MCPack
    Missing = Missing
    NoNode = NoNode
    NoMeta = NoMeta
    Absent = Absent
INVARIANTS
    CountsCoverMarkers
    DrawerShowsMarkers
    MinimizedReachable
    IdleIsDrawn
    ClassesKept
    IconMatchesWindow
PROPERTIES
    EngineSettles
CHECK_DEADLOCK FALSE
