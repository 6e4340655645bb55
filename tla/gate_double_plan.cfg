\* Two planning runs on one checkpoint.
SPECIFICATION Spec
CONSTANTS
    Planner = {p1, p2}
    Rescue = {}
    Edit = {}
    None = None
INVARIANT SingleActive
CHECK_DEADLOCK FALSE
