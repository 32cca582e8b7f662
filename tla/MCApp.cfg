SPECIFICATION FairSpec
CONSTANTS
    Tunnels = {t1, t2}
    Requests = {r1, r2}
    Exits = {e1}
    None = None
    FaultKinds = {}
    MaxFaults = 0
    MaxEnds = 0
INVARIANTS RoutesFollowTunnel StrategyFollowsMode
PROPERTY RequestsServed
