\* Two submissions of the same miner in flight at once.
CONSTANTS
    Addresses = {a1}
    ValidAddr = {a1}
    NoAddr = NoAddr
    Threads = {t1, t2}
    NetReward = 12
    Threshold = 6
    Lookback = 3
    MaxSubmits = 2
    MaxHeight = 3
    MaxSends = 2
    MaxCrashes = 0
    LateSends = FALSE
    PipelinedSubmits = TRUE
    ServerDb = FALSE

SPECIFICATION Spec
SYMMETRY Symmetry

PROPERTY AtomicSubmissions
