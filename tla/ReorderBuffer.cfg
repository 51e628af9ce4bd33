CONSTANTS
    ROB_SIZE = 3
    Ops <- MCOps
    NoOp <- MCNoOp
    Values = {v0, v1}
    Zero = v0
    NoInput = NoInput
SPECIFICATION Spec
INVARIANTS
    TypeOK
    WindowInv
PROPERTY ImplementsCommitQueue
