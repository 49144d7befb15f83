SPECIFICATION Spec
CONSTANTS
    TicksPerSecond = 2
    MaxTTL = 100
    MaxDeny = 2
    Unlimited = Unlimited
    Configs <- TwoRates
    Costs = {1, 3}
    Faults = {}
    Jumps = {}
    MaxSkew = 0
    Cost = 2
    RetryAfter = 2
    OtherCalls = 3
PROPERTY NotStarved
