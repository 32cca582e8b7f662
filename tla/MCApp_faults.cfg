SPECIFICATION Spec
CONSTANTS
    Tunnels = {t1, t2}
    Requests = {r1}
    Exits = {e1}
    None = None
    FaultKinds = {"save", "routes", "cleanup", "prepare", "start", "signal", "exit", "crash"}
    MaxFaults = 1
    MaxEnds = 1
INVARIANTS TypeOK StoreConsistent RunningIsBacked ClientIsRecorded RoutedUnlessKnown
