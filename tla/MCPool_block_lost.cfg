\* A block a pool worker found, under failed lookups, a moving tip, a failed
\* session, a failed distribution commit and a crash.
CONSTANTS
    Addresses = {a1, a2, a3}
    ValidAddr = {a1, a2}
    NoAddr = NoAddr
    Threads = {t1, t2}
    NetReward = 12
    Threshold = 6
    Lookback = 3
    MaxSubmits = 3
    MaxHeight = 3
    MaxSends = 2
    MaxCrashes = 1
    LateSends = FALSE
    PipelinedSubmits = FALSE
    ServerDb = FALSE

SPECIFICATION Spec
SYMMETRY Symmetry

INVARIANT FoundBlocksAccounted
