SPECIFICATION Spec
CONSTANTS
    ListLengths = {0, 1, 2}
    StaleValues = {0, 17, 255}
INVARIANTS ReadsInside ReadsOwn ElementsInPlace WholeMessage NoFalseAlarm
