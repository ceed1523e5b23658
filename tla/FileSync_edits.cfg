CONSTANTS
    Paths = {p}
    Home = p
    Texts = {x, y}
    FirstText = x
    Absent = Absent
    Backends = {TRUE}
    MaxDetours = 1
    MaxEvents = 2
    MaxReloads = 1
SPECIFICATION Spec
PROPERTY UnsavedEditsKept
CHECK_DEADLOCK FALSE
