CONSTANTS
    XLEN = 16
    WORD_BITS = 16
    MEM_WORDS = 16384
    MAX_AUTO_CYCLES = 10000
    Programs <- MCPrograms
    Texts <- MCTexts
    Needs <- MCNeeds
    Jobs <- SlowJobs
SPECIFICATION Spec
INVARIANT StableMeansHalted
CHECK_DEADLOCK FALSE
