\* Two planning runs that both resume the graph.
SPECIFICATION FairSpec
CONSTANTS
    Planner = {p1, p2}
    Rescue = {r1}
    Edit = {e1}
    None = None
INVARIANTS NumberedOnce GateRecordsAgree
PROPERTIES AcceptedRequestsEnd
CHECK_DEADLOCK FALSE
