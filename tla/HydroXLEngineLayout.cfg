SPECIFICATION EngineSpec
CONSTANTS
    MaxU64 = 1000000
    MaxString = 64
    MaxArray = 64
    MaxCount = 40
    MaxDim = 100000
    Align = 32
    DefaultHP <- MCDefaultHP
    MaxCells = 1000
    Penalty = 2
    TopK = 3
    TopP = 95
    L = 4
    MaxThreads = 4
    MinParallel = 3
    Files <- TwoFiles
    Prompts <- FewPrompts
    Contexts <- MCContexts
    Logits <- MCLogits
    MaxContext = 5
    DefaultMax = 4
    None = None
INVARIANT
    AttentionReadsHistory
