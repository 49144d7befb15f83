SPECIFICATION Spec
CONSTANTS
    TicksPerSecond = 2
    MaxTTL = 100
    MaxDeny = 2
    Unlimited = Unlimited
    Configs <- SteadyOnly
    Costs <- PositiveCosts
    Faults = {"reply lost", "key lost"}
    Jumps = {}
    MaxSkew = 0
    Stable <- Steady
    MaxWindow = 3
    MaxLosses = 1
INVARIANTS TypeOK NoEarlyExpiry NeverUnderCharged WindowBound ExactUntilDenied RemainingIsHonest AdmittedAfterQuiet
PROPERTY KeepsPromise
