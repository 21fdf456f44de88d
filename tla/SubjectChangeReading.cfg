SPECIFICATION Spec
CONSTANTS
    MaxId = 2
    Writers = {t1, t2}
    Replicas = {r1}
    Subjects = {s1}
    Userset = userset
    Grace = 0
    Batch = 2
    Watchers = {w1}
    Limit = 1
    MaxPasses = 2
    StaleAfter = 0
SYMMETRY WriterSymmetry
INVARIANTS
    TypeOK
    NothingOpenBelowABoundary
    SweepTakesAPrefix
    AnswerHidesNothing
    NoChangeReadOverIsStale
    NoStreamOutlivesAChangeReadOver
