\* One request thread, no crashes, sendmany may fail: due balances get paid.
CONSTANTS
    Addresses = {a1, a2, a3}
    ValidAddr = {a1, a2}
    NoAddr = NoAddr
    NoWork = NoWork
    Threads = {t1}
    NetReward = 12
    Threshold = 6
    Lookback = 3
    MaxSubmits = 3
    MaxHeight = 2
    MaxSends = 2
    MaxCrashes = 0
    LateSends = FALSE
    PipelinedSubmits = FALSE
    ServerDb = FALSE

SPECIFICATION LiveSpec
PROPERTY DueBalancePaid
