CONSTANTS
    NREGS = 4
    ZERO_REG = 0
    XLEN = 6
    MEM_WORDS = 2
    ROB_SIZE = 8
    RS_SIZE = 4
    LENGTH = 4
    Programs <- OverflowPrograms
    NoTag = NoTag
    NoInput = NoInput
SPECIFICATION Spec
PROPERTY StoresCommit
