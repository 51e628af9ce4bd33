CONSTANTS
    NREGS = 4
    ZERO_REG = 0
    XLEN = 5
    MEM_WORDS = 1
    BTB_SIZE = 4
    NoEntry = NoEntry
    LENGTH = 4
    Programs <- IndirectPrograms
SPECIFICATION Spec
PROPERTY ImplementsOracle
