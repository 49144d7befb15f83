SPECIFICATION Spec
CONSTANTS
    TicksPerSecond = 1
    MaxTTL = 100
    MaxDeny = 16
    Unlimited = Unlimited
    r1 = r1
    r2 = r2
    Checks = {r1, r2}
    StatusCalls = {}
    Costs <- RefusedOrGivenBack
    Lists <- TwoLists
    PoolSize = 2
    CounterSize = 64
    Impatient = {}
    Faults = {}
    MaxFaults = 0
CHECK_DEADLOCK FALSE
INVARIANT DenialsAddUp
