SPECIFICATION Spec
CONSTANTS
    Tunnels = {t1, t2}
    Groups = {g1}
    CIDRs = {d1}
    Hosts = {h1, h2}
    None = None
    FaultKinds = {"command", "crash", "exit", "shutdown", "vanish", "source"}
    MaxFaults = 2
    MaxCopies = 3
SYMMETRY Interchangeable
INVARIANTS TypeOK Recorded NoLoop SubscriptionOutside
CONSTRAINT Unspoiled
