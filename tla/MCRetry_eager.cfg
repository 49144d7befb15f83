SPECIFICATION Spec
CONSTANTS
    TicksPerSecond = 2
    MaxTTL = 100
    MaxDeny = 2
    Unlimited = Unlimited
    Configs <- OneRate
    Costs = {1, 3}
    Faults = {}
    Jumps = {}
    MaxSkew = 0
    Cost = 2
    RetryAfter = 1
    OtherCalls = 0
PROPERTY NotStarved
