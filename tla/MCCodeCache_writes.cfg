SPECIFICATION FairSpec
CONSTANTS
    PageId = {a1, a2, a3}
    NoPage = NoPage
    PageSize = 6
    MaxPageFactor = 2
    Limit = 20
    ListSize = 1
    MethodSize = 1
    DebugSize = 1
    DebugPairs = 2
    BestAlign = 2
    FuncAlign = 2
    Func = {f1, f2}
    Program <- MCProgram
    BlockSize = {5}
    MallocMayFail = TRUE
INVARIANTS
    LayoutInv
    WritesFreeSpace
    PageBudget
PROPERTIES FixedInPlace RestartLoopTerminates
