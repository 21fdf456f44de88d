SPECIFICATION Spec
CONSTANTS
    Requests = {r1, r2}
    Sessions = {s1, s2}
    AddressAttempts = 1
    Scenes <- OutdatedScene
SYMMETRY Symmetry
INVARIANT ReplacedPasswordStaysReplaced
