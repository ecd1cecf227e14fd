CONSTANTS
    Node = {n1, n2}
    NoNode = NoNode
    Slots = 2
    SeqNums = 3
    MaxSends = 1
    MaxInds = 3
    MaxStates = 0
SPECIFICATION Spec
PROPERTY SlotKeepsNode
