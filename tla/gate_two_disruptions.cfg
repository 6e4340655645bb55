\* Two disruptions reported while neither has written its proposal.
SPECIFICATION Spec
CONSTANTS
    Planner = {p1}
    Rescue = {r1, r2}
    Edit = {}
    None = None
INVARIANT AtMostOnePending
CHECK_DEADLOCK FALSE
