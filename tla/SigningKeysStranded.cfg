SPECIFICATION LoopSpec
CONSTANTS
    Keys = {k1, k2}
    NoKey = NoKey
    Replicas = {r1, r2}
    Operators = {}
    Issuers = {}
    KeyLifetime = 2
    RotationLead = 1
    HandoverLimit = 1
    StrandedAfter = 2
    RemovalGrace = 3
    MaxTokenTTL = 1
    IssueLimit = 1
    Skew = 0
    AgeCap = 3
PROPERTIES
    NoKeyIsStranded
