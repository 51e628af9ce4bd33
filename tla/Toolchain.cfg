CONSTANTS
    XLEN = 16
    WORD_BITS = 16
    MEM_WORDS = 16384
    MAX_AUTO_CYCLES = 10000
    Programs <- MCPrograms
    Texts <- MCTexts
    Needs <- MCNeeds
    Jobs <- MCJobs
SPECIFICATION Spec
INVARIANTS
    TypeOK
    ResultsAgree
    StableMeansHalted
    LayoutMatchesImage
    BranchesReachTheirLabels
    ModelsAgree
    LongOnlyWhenNeeded
    RefusesOnlyUnsupported
    NoUseBehindLoad
PROPERTIES
    FramesAreDisciplined
    StoresHitLiveMemory
    Completes
CHECK_DEADLOCK FALSE
