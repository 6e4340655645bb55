\* Two builds that find the graph at the swipe interrupt.
SPECIFICATION Spec
CONSTANTS
    Traveler = {t1, t2, t3}
    Leaver = {}
    Selection = {s1, s2}
    Builder = {b1, b2}
    Editor = {}
    Planner = {}
    None = None
SYMMETRY Symmetry
INVARIANT GroupOpensTheGate
CHECK_DEADLOCK FALSE
