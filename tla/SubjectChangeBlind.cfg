SPECIFICATION BlindSpec
CONSTANTS
    MaxId = 2
    Writers = {t1, t2}
    Replicas = {r1}
    Subjects = {}
    Userset = userset
    Grace = 1
    Batch = 2
    Watchers = {w1}
    Limit = 1
    MaxPasses = 2
    StaleAfter = 1
    MaxTx = 1
PROPERTY EveryChangeArrives
