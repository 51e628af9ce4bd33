CONSTANTS
    NREGS = 4
    ZERO_REG = 0
    XLEN = 5
    MEM_WORDS = 1
    LENGTH = 3
    Programs <- MCPrograms
    Profiles <- MCProfiles
SPECIFICATION Spec
INVARIANTS
    TypeOK
    InLockstep
PROPERTIES
    MulticycleImplementsOracle
    BudgetImplementsOracle
    BothKeepCommitting
