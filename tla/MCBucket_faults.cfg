SPECIFICATION Spec
CONSTANTS
    TicksPerSecond = 2
    MaxTTL = 2
    MaxDeny = 2
    Unlimited = Unlimited
    Configs <- Reloaded
    Costs <- SignedCosts
    Faults = {"unreachable", "reply lost", "key lost", "set back", "set forward"}
    Jumps = {2}
    MaxSkew = 2
    Stable <- FirstOnly
    MaxWindow = 1
    MaxLosses = 1
INVARIANTS IInv WindowBound ExactUntilDenied AdmittedAfterQuiet
PROPERTY KeepsPromise
