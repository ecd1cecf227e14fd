CONSTANTS
    Base = 16
    SOF = 14
    ExOr <- ByteXor
    Commands <- Commands12
    Payloads <- Awkward
    MaxFrames = 2
    MaxDamaged = 1
    MaxReadErrors = 6
    MaxHeaderErrors = 1
SPECIFICATION Spec
INVARIANTS DeliversIntact LossIsLocal InsideBuffer
\* Everything sent has been read: nothing is left to do.
CHECK_DEADLOCK FALSE
