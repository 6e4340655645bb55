\* One plan, two rescues and a manual edit against each other.
SPECIFICATION Spec
CONSTANTS
    Planner = {p1}
    Rescue = {r1, r2}
    Edit = {e1}
    None = None
SYMMETRY Symmetry
INVARIANTS SingleActive LinearHistory EditPushIsDurable
PROPERTIES FreshProposal EditProposesAlone ImplementsApproval
CHECK_DEADLOCK FALSE
