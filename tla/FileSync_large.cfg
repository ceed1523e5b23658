CONSTANTS
    Paths = {p, q}
    Home = p
    Texts = {x, y}
    FirstText = x
    Absent = Absent
    Backends = {TRUE}
    MaxDetours = 2
    MaxEvents = 1
    MaxReloads = 1
SPECIFICATION Spec
INVARIANT TypeOK CleanIsBaseline CleanIsOnDisk OwnSavesAreSilent
CHECK_DEADLOCK FALSE
