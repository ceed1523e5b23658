CONSTANTS
    Processes = {p1, p2}
    Layouts <- TwoLayouts
    MaxWindows = 2
    Process = {p1, p2}
    Window = {1, 2}
    RecentFile = {"f"}
    MaxRecent = 1
    MaxChanges = 2
    MaxLaunches = 2
    MaxFaults = 1
    Texts = {"", "x", "large"}
    EmptyText = ""
    LargeTexts = {"large"}
    ServerText = "x"
    MaxTabIds = 2
    MaxTabs = 2
    MaxWrites = 2
SYMMETRY ProcessSymmetry
SPECIFICATION Spec
INVARIANT ShownIsStored LegacyImportedOnce
PROPERTY SavedIsRestored SaveDeletesClosed UnsavedTextRestored CleanTabsShowTheFile
CHECK_DEADLOCK FALSE
