CONSTANTS
    weights = weights
    cache = cache
    Resources <- MCResources
    Layers = {1, 2}
    inputResources <- MCInputs
    dependsOn <- MCDependsOn
    Distance = 1
    Tasks = {t1, t2, t3}
    Evictors = {e1}
    Blocks = {b1, b2}
    MaxLayers = 2
    MaxCalls = 1
    None = None
SPECIFICATION Spec
INVARIANTS BlockWhenResident NoBlockLost
PROPERTIES LayerReturns
CHECK_DEADLOCK FALSE
