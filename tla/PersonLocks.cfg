SPECIFICATION Spec
CONSTANTS
    Txns = {t1, t2, t3}
    Sessions = {s1, s2}
    Verbs <- AllVerbs
    Crossings = {}
    MaxWithDeletion = 2
SYMMETRY Symmetry
INVARIANT NoMutualWait
