CONSTANTS
    Node = {n1, n2}
    NoNode = NoNode
    Slots = 2
    SeqNums = 3
    MaxSends = 2
    MaxInds = 3
    MaxStates = 3
SPECIFICATION Spec
SYMMETRY Symmetry
INVARIANTS TypeOK SecondEntryStarves UpMeansStarted
PROPERTY PassesEchoed
