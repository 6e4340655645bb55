\* Prompt workers that crash and lose their connections.
SPECIFICATION FairSpec
CONSTANTS
    Trip = {t1}
    Shared = {t1}
    Worker = {w1, w2}
    Prompt = {w1, w2}
    None = None
    StaleAfter = 2
    MaxCrashes = 1
    MaxLosses = 1
INVARIANTS PoolOnce CompletedMeansDeck
PROPERTIES  EveryRunEnds
CHECK_DEADLOCK FALSE
