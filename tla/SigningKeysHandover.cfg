SPECIFICATION Spec
CONSTANTS
    Keys = {k1, k2, k3}
    NoKey = NoKey
    Replicas = {r1, r2}
    Operators = {o1}
    Issuers = {c1}
    KeyLifetime = 2
    RotationLead = 1
    HandoverLimit = 1
    StrandedAfter = 2
    RemovalGrace = 3
    MaxTokenTTL = 1
    IssueLimit = 1
    Skew = 0
    AgeCap = 3
SYMMETRY KeySymmetry
CONSTRAINT SignEarly
INVARIANTS
    TypeOK
    OneSigner
    TokensOutliveNoKey
PROPERTIES
    OnlyALeakStopsSigning
    OnlyADueSignerIsRotated
    SweepSparesAHandover
    ALeakIsFinal
