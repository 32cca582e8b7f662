SPECIFICATION FairSpec
CONSTANTS
    Ops = {op1}
    Shutdown = shutdown
    Handles = {h1, h2}
    Devices = {tun0}
    None = None
    MaxRestarts = 1
INVARIANTS TypeOK SingleClient NoLostClient StopIsSilent ReturnMeansGone
PROPERTIES ForgetOnlyStopped ImplementsSlot ExitReported OperationsReturn
