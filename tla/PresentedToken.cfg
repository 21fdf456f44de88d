SPECIFICATION PartsSpec
CONSTANTS
    Persons = {person}
    ServiceAccounts = {account}
    Credentials = {c1}
    Requests = {r1}
    TicksPerSecond = 2
    TokenTTL = 2
    CredentialTTL = 4
    ClockSkew = 0
    RemovalSlack = 1
    MaxNow = 6
    MaxPending = 2
    Readers = {q1, q2}
    PublishedKeys = {k1}
    KeySetTTL = 2
    ForcedInterval = 1
    MaxKeyNow = 3
    Tokens = {t1, t2}
    VerdictTTL = 1
    MaxCached = 1
    MaxVerdictNow = 2
INVARIANTS
    EndedAuthorityIsRefused
    TokenEndsWithItsCredential
    CacheIsBounded
PROPERTIES
    SweepRevivesNothing
    PersonsTokenIsNotBornRevoked
    RotationIsSeen
    KeysAreRecent
    VerdictsAreRecent
