SPECIFICATION ServiceSpec
CONSTANTS
    TicksPerSecond = 1
    MaxTTL = 2
    MaxDeny = 6
    Unlimited = Unlimited
    r1 = r1
    r2 = r2
    r3 = r3
    Checks = {r1, r2}
    StatusCalls = {r3}
    Costs <- SpendOrGiveBack
    Lists <- FastThenSlow
    PoolSize = 2
    CounterSize = 64
    Impatient = {r2}
    Faults = {"down", "restart", "stall", "crash", "reset", "refuse"}
    MaxFaults = 1
    Environments <- SixEnvironments
CHECK_DEADLOCK FALSE
INVARIANTS TypeOK PermitsBalance AtMostOnce DecidedByScript RefusedForCause AdmittedFits OpensOnlyOnFault CountersAgree ScriptIsLoaded
PROPERTY ChecksAreAtomic AnsweredUnlessSilent CountersFallOnlyAfterRefund EndsOrServes ServesInTheEnd
