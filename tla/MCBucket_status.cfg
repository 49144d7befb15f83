SPECIFICATION Spec
CONSTANTS
    TicksPerSecond = 2
    MaxTTL = 100
    MaxDeny = 2
    Unlimited = Unlimited
    Configs <- SteadyOnly
    Costs <- PositiveCosts
    Faults = {}
    Jumps = {}
    MaxSkew = 0
    Stable <- FirstOnly
    MaxWindow = 0
    MaxLosses = 0
INVARIANT StatusShowsBucket
