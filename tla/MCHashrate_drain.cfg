CONSTANTS
    Addresses = {w1, w2}
    Threads = {t1, t2}
    Window = 2
    Scale = 4
    MaxSubmits = 3
SPECIFICATION FairSpec
INVARIANT TypeOK
PROPERTY WindowsDrain
