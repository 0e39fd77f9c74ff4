\* As reliable, with one process crash and sendmany calls that time out
\* after the daemon has paid.
CONSTANTS
    Addresses = {a1, a2, a3}
    ValidAddr = {a1, a2}
    NoAddr = NoAddr
    Threads = {t1, t2}
    NetReward = 12
    Threshold = 6
    Lookback = 3
    MaxSubmits = 4
    MaxHeight = 3
    MaxSends = 2
    MaxCrashes = 1
    LateSends = TRUE
    PipelinedSubmits = FALSE
    ServerDb = FALSE

SPECIFICATION Spec
SYMMETRY Symmetry

INVARIANT TypeOK
INVARIANT CountersMatchShares
INVARIANT BlockPaymentsConserve
INVARIANT PaymentsProportional
