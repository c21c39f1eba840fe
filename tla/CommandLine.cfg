CONSTANTS
    Ids = {1, 2, 3}
    KeyOrder <- MCKeyOrder
    Files <- MCFiles
    Machines <- MCMachines
    Registries <- MCRegistries
    Configs <- MCConfigs
    MadePlans <- MCMadePlans
    Callers = {c1, c2}
    MaxThreads = 2
    ModelSizes = {0, 4, 12}
    GpuMemories <- MCGpuMemories
    MaxRecords = 6
    MaxReplacements = 1
SPECIFICATION Spec
INVARIANTS ValidateIsAcyclic PlanIsCarriedOut UploadsFit OneReading SuggestionObeysCeiling
SYMMETRY Symmetry
CHECK_DEADLOCK FALSE
