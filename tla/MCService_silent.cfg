SPECIFICATION ServiceSpec
CONSTANTS
    TicksPerSecond = 1
    MaxTTL = 2
    MaxDeny = 6
    Unlimited = Unlimited
    r1 = r1
    r2 = r2
    r3 = r3
    Checks = {r1, r2}
    StatusCalls = {r3}
    Costs <- SpendOrGiveBack
    Lists <- FastThenSlow
    PoolSize = 2
    CounterSize = 64
    Impatient = {}
    Faults = {"stall"}
    MaxFaults = 1
    Environments <- SoundAlone
CHECK_DEADLOCK FALSE
PROPERTY WaitsEnd
