CONSTANTS
    App = {a}
    Getters = {}
    Rx = rx
    Thread <- Users
    Message <- Frame
    Nothing = Nothing
    Empty = Empty
    Sub = {zdo, af}
    StatusSub = {zdo, af}
    NoSub = NoSub
    ZeroSub = ZeroSub
    NoReq = NoReq
    WarningsPrinted = FALSE
    MaxReq = 2
    MaxAreq = 0
    MaxTimeout = 2
    MaxLoss = 0
SPECIFICATION Spec
INVARIANT SrspSemBinary
