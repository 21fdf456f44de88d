SPECIFICATION TimelySpec
CONSTANTS
    MaxId = 2
    Writers = {t1}
    Replicas = {r1}
    Subjects = {s1}
    Userset = userset
    Grace = 3
    Batch = 2
    Watchers = {w1}
    Limit = 1
    MaxPasses = 1
    StaleAfter = 1
    MaxTx = 0
INVARIANT TimelyReaderMissesNothing
PROPERTY EveryChangeArrives
