SPECIFICATION FairSpec
CONSTANTS
    Requests = {r1, r2}
    MaxGen = 2
INVARIANTS
    OnePairPerCode
    OneLiveGeneration
    EndedSessionHoldsNothing
    ConsumerIsServed
    ReplayIsOfTheUsed
PROPERTY NobodyWaitsForever
CHECK_DEADLOCK FALSE
