SPECIFICATION Spec
CONSTANTS
    Tunnels = {t1, t2}
    Groups = {g1}
    CIDRs = {d1}
    Hosts = {h1}
    None = None
    FaultKinds = {"exit"}
    MaxFaults = 1
    MaxCopies = 3
SYMMETRY Interchangeable
INVARIANT ArtefactsRecorded
