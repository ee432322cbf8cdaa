SPECIFICATION Spec
CONSTANTS
    PageId = {a1, a2, a3}
    NoPage = NoPage
    PageSize = 6
    MaxPageFactor = 2
    Limit = 18
    ListSize = 2
    MethodSize = 1
    DebugSize = 1
    DebugPairs = 2
    BestAlign = 1
    FuncAlign = 2
    Func = {f1}
    Program <- MCProgram
    BlockSize = {5}
    MallocMayFail = FALSE
PROPERTY TooBigMeansNoSpace
