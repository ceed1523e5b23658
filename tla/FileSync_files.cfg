CONSTANTS
    Paths = {p, q}
    Home = p
    Texts = {x, y}
    FirstText = x
    Absent = Absent
    Backends = {TRUE, FALSE}
    MaxDetours = 1
    MaxEvents = 1
    MaxReloads = 1
SPECIFICATION FairSpec
INVARIANT CleanIsOnDisk OwnSavesAreSilent
PROPERTY SavesEnd
CHECK_DEADLOCK FALSE
