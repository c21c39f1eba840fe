CONSTANTS
    t1 = t1
    t2 = t2
    s1 = s1
    s2 = s2
    Threads = {t1, t2}
    Sessions = {s1, s2}
    Inventories <- MCInventories
    ModelFiles <- MCModelFiles
    Defaults <- MCDefaults
    Speeds = {3000}
    AssumedRam = 16000
    MinRam = 500
    CpuQuants = {"F16", "Q4_K"}
    VulkanQuants = {"F16"}
    Archs = {"qwen2"}
    MaxSeq = 4
    PromptTokens = 1
    MaxNew = 2
    MaxCalls = 2
    MaxOpens = 2
    MaxEvents = 1
    None = None
SPECIFICATION Spec
INVARIANTS StreamStopsSoon CancelReported NoFabricatedSamples VulkanOnlyWhereItFits
CHECK_DEADLOCK FALSE
SYMMETRY MCSymmetry
