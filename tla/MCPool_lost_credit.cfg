\* One request thread and the payout thread, no crash and no late reply:
\* a distribution credits balances it loaded before another commit.
CONSTANTS
    Addresses = {a1, a2, a3}
    ValidAddr = {a1, a2}
    NoAddr = NoAddr
    Threads = {t1}
    NetReward = 12
    Threshold = 6
    Lookback = 3
    MaxSubmits = 4
    MaxHeight = 3
    MaxSends = 2
    MaxCrashes = 0
    LateSends = FALSE
    PipelinedSubmits = FALSE
    ServerDb = FALSE

SPECIFICATION Spec
SYMMETRY Symmetry

INVARIANT PendingMatchesPayments
