\* Two miners' request threads, no crash and no late reply: a Share stamped
\* at its flush commits after a later block's distribution has run.
CONSTANTS
    Addresses = {a1, a2, a3}
    ValidAddr = {a1, a2}
    NoAddr = NoAddr
    Threads = {t1, t2}
    NetReward = 12
    Threshold = 6
    Lookback = 3
    MaxSubmits = 3
    MaxHeight = 3
    MaxSends = 2
    MaxCrashes = 0
    LateSends = FALSE
    PipelinedSubmits = FALSE
    ServerDb = TRUE

SPECIFICATION Spec
SYMMETRY Symmetry

INVARIANT NoShareDropped
