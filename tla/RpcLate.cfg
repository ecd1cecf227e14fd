CONSTANTS
    App = {a, b}
    Getters = {}
    Rx = rx
    Thread <- Users
    Message <- Frame
    Nothing = Nothing
    Empty = Empty
    Sub = {zdo}
    StatusSub = {zdo}
    NoSub = NoSub
    ZeroSub = ZeroSub
    NoReq = NoReq
    WarningsPrinted = FALSE
    MaxReq = 2
    MaxAreq = 1
    MaxTimeout = 2
    MaxLoss = 1
SPECIFICATION LiveSpec
INVARIANTS OneSender ExpectedIsCurrent EachAreqInOnePlace Balance NoEmptyReceive
PROPERTIES CallsReturn QueueDrains
