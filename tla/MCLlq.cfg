CONSTANTS
    Thread = {t1, t2, t3}
    Message = {m1, m2}
    Nothing = Nothing
    Empty = Empty
    Node = {n1, n2, n3}
    NULL = NULL
    Junk = Junk
SPECIFICATION Spec
SYMMETRY Symmetry
INVARIANTS ListWhole SafeToFollow
PROPERTY ImplementsPrioQueue
