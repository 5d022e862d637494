SPECIFICATION SingletonsSpec
CONSTANTS
    w1 = w1
    w2 = w2
    a1 = a1
    Workers = {w1, w2}
    Admins = {a1}
    Kinds = {"analyze", "order", "ready"}
    Cached = {"broker", "validation_service", "orchestrator", "execution_controller"}
    Cap = 2
    Costs = {2}
    MaxChanges = 1
    MaxRequests = 2
SYMMETRY Threads
INVARIANTS
    SingletonsTypeOK
    CachedIsCurrent
    OneLogin
    LoneClientKeepsCap
