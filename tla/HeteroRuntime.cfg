CONSTANTS
    Requests = {q1, q2}
    Models = {m1}
    Engines = {e1, e2, e3}
    Placements = {0, 1}
    Admin = Admin
    None = None
    MaxAdminOps = 2
SPECIFICATION Spec
INVARIANTS ExecutionOwnsEngine StoredEnginesServe
PROPERTIES  CallsReturn
CHECK_DEADLOCK FALSE
