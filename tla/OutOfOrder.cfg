CONSTANTS
    NREGS = 4
    ZERO_REG = 0
    XLEN = 5
    MEM_WORDS = 2
    ROB_SIZE = 8
    RS_SIZE = 4
    LENGTH = 4
    Programs <- MCPrograms
    NoTag = NoTag
    NoInput = NoInput
SPECIFICATION Spec
INVARIANTS
    TypeOK
    AliasIsYoungestWriter
    StationHoldsUnexecuted
    OperandsHaveProducers
    RoomAtDispatch
    RenamesToUnexecuted
PROPERTIES
    ImplementsOracle
    KeepsCommitting
    StoresCommit
