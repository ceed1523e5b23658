CONSTANTS
    Texts = {"", "x"}
    EmptyText = ""
    LargeTexts = {}
    ServerText = "x"
    MaxTabIds = 3
    MaxTabs = 3
    MaxWrites = 1
SPECIFICATION RestoreSpec
PROPERTIES
    ActiveTabRestored
CHECK_DEADLOCK FALSE
