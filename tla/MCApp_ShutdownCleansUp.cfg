SPECIFICATION Spec
CONSTANTS
    Tunnels = {t1, t2}
    Requests = {r1}
    Exits = {e1}
    None = None
    FaultKinds = {}
    MaxFaults = 0
    MaxEnds = 1
INVARIANT ShutdownCleansUp
