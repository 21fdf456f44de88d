SPECIFICATION Spec
CONSTANTS
    Bindings = {1, 2}
    Passes = {p1, p2, p3}
    Granted = {1}
    StartMirror = "match"
    SlowFold = FALSE
    MaxChanges = 2
    Scenes <- AllScenes
SYMMETRY Symmetry
INVARIANTS
    MembersAreLedgered
    FactsAreGrants
    WithdrawnIsQueued
CHECK_DEADLOCK FALSE
