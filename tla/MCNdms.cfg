SPECIFICATION Spec
CONSTANTS
    Tunnels = {t1, t2}
    MaxCalls = 2
    None = None
    MaxTroubles = 1
INVARIANTS TypeOK RouterAgrees RouterReady
