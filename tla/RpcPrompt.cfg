CONSTANTS
    App = {a, b}
    Getters = {b}
    Rx = rx
    Thread <- Users
    Message <- Frame
    Nothing = Nothing
    Empty = Empty
    Sub = {zdo, af}
    StatusSub = {zdo, af}
    NoSub = NoSub
    ZeroSub = ZeroSub
    NoReq = NoReq
    WarningsPrinted = TRUE
    MaxReq = 2
    MaxAreq = 2
    MaxTimeout = 0
    MaxLoss = 0
SPECIFICATION Spec
SYMMETRY SubSymmetry
INVARIANTS TypeOK NoStaleSrsp SuccessIsOwn NothingDiscarded QueueSorted FetchedInOrder
