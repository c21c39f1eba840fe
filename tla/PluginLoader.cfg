CONSTANTS
    Paths = {p1, p2}
    Discoverers = {d1, d2}
    None = None
SPECIFICATION Spec
INVARIANTS LoadsAreFreed LifecycleAgrees
