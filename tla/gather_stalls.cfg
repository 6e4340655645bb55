\* Workers that stall at will, and crash, but keep their connections.
SPECIFICATION Spec
CONSTANTS
    Trip = {t1}
    Shared = {t1}
    Worker = {w1, w2}
    Prompt = {}
    None = None
    StaleAfter = 2
    MaxCrashes = 1
    MaxLosses = 0
SYMMETRY Symmetry
INVARIANTS ExclusiveExecution
PROPERTIES KeepsPromise
CHECK_DEADLOCK FALSE
