CONSTANTS
    NREGS = 4
    ZERO_REG = 0
    XLEN = 5
    MEM_WORDS = 1
    LENGTH = 4
    STEPS = 40
    Programs <- MCPrograms
SPECIFICATION Spec
INVARIANT TypeOK
PROPERTIES
    CommitsInOrder
    KeepsCommitting
    FullRate
