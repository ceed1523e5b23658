CONSTANTS
    Processes = {p1}
    Layouts <- TwoLayouts
    MaxWindows = 1
    Process = {p1}
    Window = {1, 2}
    RecentFile = {"f"}
    MaxRecent = 1
    MaxChanges = 1
    MaxLaunches = 1
    MaxFaults = 1
    Texts = {"", "x"}
    EmptyText = ""
    LargeTexts = {}
    ServerText = "x"
    MaxTabIds = 2
    MaxTabs = 1
    MaxWrites = 1
SPECIFICATION Spec
PROPERTY SharedEvenIfNotSaved
CHECK_DEADLOCK FALSE
