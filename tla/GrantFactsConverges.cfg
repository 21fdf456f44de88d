SPECIFICATION FairSpec
CONSTANTS
    Bindings = {1}
    Passes = {p1, p2}
    Granted = {}
    StartMirror = "absent"
    SlowFold = FALSE
    MaxChanges = 2
    Scenes <- Object
PROPERTIES
    Converges
CHECK_DEADLOCK FALSE
