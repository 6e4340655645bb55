\* An edit that changes nothing against a confirmation.
SPECIFICATION Spec
CONSTANTS
    Traveler = {t1, t2, t3}
    Leaver = {}
    Selection = {s1, s2}
    Builder = {b1}
    Editor = {e1}
    Planner = {}
    None = None
SYMMETRY Symmetry
PROPERTY AckSurvives
CHECK_DEADLOCK FALSE
