\* One build, an edit, a plan and a deletion against the confirmations.
SPECIFICATION Spec
CONSTANTS
    Traveler = {t1, t2, t3}
    Leaver = {t3}
    Selection = {s1, s2}
    Builder = {b1}
    Editor = {e1}
    Planner = {p1}
    None = None
SYMMETRY Symmetry
INVARIANTS AcksMatchSelection PlannedHadQuorum
CHECK_DEADLOCK FALSE
