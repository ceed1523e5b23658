CONSTANTS
    Texts = {"", "x"}
    EmptyText = ""
    LargeTexts = {}
    ServerText = "x"
    MaxTabIds = 3
    MaxTabs = 2
    MaxWrites = 2
SPECIFICATION RestoreSpec
PROPERTIES
    UnsavedContentSurvives
CHECK_DEADLOCK FALSE
